---- MODULE Spec2Model ----
(***************************************************************************)
(* Model of src/app.py: the Screener.in sheet normalizer                   *)
(* load_and_clean_data and the Streamlit page script that calls it for     *)
(* three sheets behind st.cache_data.                                      *)
(*                                                                         *)
(* A spreadsheet cell is a record [t, n, s]: t is the cell's type as the   *)
(* Excel reader returns it ("nan" blank, "num" number, "date" date cell,   *)
(* "str" text), n the number or the day of the date, s the text as a       *)
(* sequence of characters.                                                 *)
(***************************************************************************)
EXTENDS Integers, Sequences, FiniteSets, TLC

VARIABLES
    raw,        \* SpecLoad: the sheet handed to one call of load_and_clean_data
    call,       \* SpecLoad: what that call returned ([done |-> FALSE] before it)
    file,       \* Spec: content of the workbook on disk, one sheet per name
    cache,      \* Spec: st.cache_data entries of load_and_clean_data, per sheet
    page        \* Spec: what the last run of the page script rendered

vars == <<raw, call, file, cache, page>>

----------------------------------------------------------------------------
(* Cells *)

Blank == [t |-> "nan", n |-> 0, s |-> <<>>]
Num(v) == [t |-> "num", n |-> v, s |-> <<>>]
Date(d) == [t |-> "date", n |-> d, s |-> <<>>]
Txt(chars) == [t |-> "str", n |-> 0, s |-> chars]

ReportDate == Txt(<<"R","e","p","o","r","t"," ","D","a","t","e">>)
reportdate == Txt(<<"r","e","p","o","r","t"," ","d","a","t","e">>)
Years == Txt(<<"Y","e","a","r","s">>)
Narration == Txt(<<"N","a","r","r","a","t","i","o","n">>)
Trailing == Txt(<<"T","r","a","i","l","i","n","g">>)
Title == Txt(<<"H","U","L">>)
Sales == Txt(<<"S","a","l","e","s">>)
NetProfit == Txt(<<"N","e","t"," ","P","r","o","f","i","t">>)
OperatingProfit == Txt(<<"O","p","e","r","a","t","i","n","g"," ","P","r","o","f","i","t">>)
ROCE == Txt(<<"R","O","C","E"," ","%">>)
ROE == Txt(<<"R","O","E"," ","%">>)
CashOp == Txt(<<"C","a","s","h"," ","f","r","o","m"," ","O","p","e","r","a","t","i","n","g"," ","A","c","t","i","v","i","t","y">>)
Note == Txt(<<"*","N","o","t","e">>)

----------------------------------------------------------------------------
(* pd.to_numeric(errors='coerce') on one cell *)

NaN == [num |-> FALSE, v |-> 0]
Val(x) == [num |-> TRUE, v |-> x]

Digit(c) ==
    CASE c = "0" -> 0 [] c = "1" -> 1 [] c = "2" -> 2 [] c = "3" -> 3
      [] c = "4" -> 4 [] c = "5" -> 5 [] c = "6" -> 6 [] c = "7" -> 7
      [] c = "8" -> 8 [] c = "9" -> 9 [] OTHER -> -1

IsNumeral(s) == Len(s) > 0 /\ \A i \in 1..Len(s) : Digit(s[i]) >= 0

RECURSIVE Decimal(_)
Decimal(s) ==
    IF s = <<>> THEN 0
    ELSE 10 * Decimal(SubSeq(s, 1, Len(s) - 1)) + Digit(s[Len(s)])

(* to_numeric followed by fillna(0): a cell that is no number becomes 0 *)
to_numeric_fillna(c) ==
    CASE c.t = "num" -> Val(c.n)
      [] c.t = "str" -> IF IsNumeral(c.s) THEN Val(Decimal(c.s)) ELSE Val(0)
      [] OTHER -> Val(0)

to_numeric(c) ==
    CASE c.t = "num" -> Val(c.n)
      [] c.t = "str" -> IF IsNumeral(c.s) THEN Val(Decimal(c.s)) ELSE NaN
      [] OTHER -> NaN

(* pd.to_datetime(errors='coerce') on one column label; a Timestamp is the *)
(* day number of the date, NaT is not a Timestamp.                         *)
NaT == -1
to_datetime(c) == IF c.t = "date" THEN c.n ELSE NaT
(* the isinstance filter of line 47 left out: every column is kept *)
isTimestamp_any(x) == TRUE
isTimestamp(x) == x # NaT

----------------------------------------------------------------------------
(* load_and_clean_data(file_path, sheet_name, header_keyword)              *)
(* A sheet is [readable, rows]: rows is what pd.read_excel(header=None)    *)
(* returns, every row of the same width; readable = FALSE when read_excel  *)
(* raises (no file, no such sheet).                                        *)

NROWS == 20

Min(a, b) == IF a < b THEN a ELSE b

(* line 18: nrows=20 *)
head(rows) == SubSeq(rows, 1, Min(Len(rows), NROWS))

(* line 24: header_keyword in row.values *)
contains(row, header_keyword) == \E j \in 1..Len(row) : row[j] = header_keyword

(* the scan without its break: the last row holding the keyword wins *)
find_header_last(rows, header_keyword) ==
    LET df_raw == SubSeq(rows, 1, IF Len(rows) < NROWS THEN Len(rows) ELSE NROWS)
        hits == {i \in 1..Len(df_raw) :
                    \E j \in 1..Len(df_raw[i]) : df_raw[i][j] = header_keyword}
    IN  IF hits = {} THEN -1
        ELSE (CHOOSE i \in hits : \A k \in hits : i >= k) - 1

(* header_row initialised to 0 instead of None *)
find_header_row0(rows, header_keyword) ==
    LET df_raw == SubSeq(rows, 1, IF Len(rows) < NROWS THEN Len(rows) ELSE NROWS)
        hits == {i \in 1..Len(df_raw) :
                    \E j \in 1..Len(df_raw[i]) : df_raw[i][j] = header_keyword}
    IN  IF hits = {} THEN 0
        ELSE (CHOOSE i \in hits : \A k \in hits : i <= k) - 1

(* lines 22-26: the 0-based index of the first scanned row holding the     *)
(* keyword, -1 for None                                                    *)
find_header(rows, header_keyword) ==
    LET df_raw == head(rows)
        hits == {i \in 1..Len(df_raw) : contains(df_raw[i], header_keyword)}
    IN  IF hits = {} THEN -1
        ELSE (CHOOSE i \in hits : \A k \in hits : i <= k) - 1

(* line 47: the positions (left to right) of the columns that are kept *)
RECURSIVE valid_cols(_, _)
valid_cols(new_columns, j) ==
    IF j > Len(new_columns) THEN <<>>
    ELSE (IF isTimestamp(new_columns[j]) THEN <<j>> ELSE <<>>)
         \o valid_cols(new_columns, j + 1)

(* sort_index() left out: the periods stay in the order of the sheet *)
sort_index_asis(idx, left) == [k \in 1..Cardinality(left) |-> k]

(* line 58: sort_index() on the period labels; the result lists, in        *)
(* ascending order of label, the positions of the labels in idx            *)
RECURSIVE sort_index(_, _)
sort_index(idx, left) ==
    IF left = {} THEN <<>>
    ELSE LET m == CHOOSE i \in left :
                    \A k \in left : idx[i] < idx[k] \/ (idx[i] = idx[k] /\ i <= k)
         IN  <<m>> \o sort_index(idx, left \ {m})

None == [ok |-> FALSE, name |-> Blank, index |-> <<>>, columns |-> <<>>,
         values |-> <<>>]

load_and_clean_data(sheet, sheet_name, header_keyword) ==
    IF ~sheet.readable
    THEN \* lines 62-64: read_excel raised
         [ret |-> None, header_row |-> -1, steps |-> {},
          errors |-> <<[kind |-> "Error loading", sheet |-> sheet_name,
                        keyword |-> Blank]>>]
    ELSE
    LET header_row == find_header(sheet.rows, header_keyword) IN
    IF header_row = -1
    THEN \* lines 28-30
         [ret |-> None, header_row |-> -1, steps |-> {"scan"},
          errors |-> <<[kind |-> "Could not find header", sheet |-> sheet_name,
                        keyword |-> header_keyword]>>]
    ELSE
    LET \* line 33: the header row names the columns, the rows below are data
        columns == sheet.rows[header_row + 1]
        data == SubSeq(sheet.rows, header_row + 2, Len(sheet.rows))
        \* lines 37-43
        metric_col_name == columns[1]
        new_columns == [j \in 1..Len(columns) |->
                           IF j = 1 THEN NaT ELSE to_datetime(columns[j])]
        \* lines 47-48
        kept == valid_cols(new_columns, 2)
        \* lines 52-53
        numeric == [r \in 1..Len(data) |->
                      [k \in 1..Len(kept) |-> to_numeric(data[r][kept[k]])]]
        \* line 56: set_index(metric_col_name).T
        index == [k \in 1..Len(kept) |-> new_columns[kept[k]]]
        names == [r \in 1..Len(data) |-> data[r][1]]
        \* line 58
        order == sort_index(index, 1..Len(index))
    IN  [ret |-> [ok |-> TRUE,
                  name |-> metric_col_name,
                  index |-> [k \in 1..Len(order) |-> index[order[k]]],
                  columns |-> names,
                  values |-> [k \in 1..Len(order) |->
                                [r \in 1..Len(data) |-> numeric[r][order[k]]]]],
         header_row |-> header_row,
         steps |-> {"scan", "reread", "to_datetime", "to_numeric", "transpose"},
         errors |-> <<>>]

----------------------------------------------------------------------------
(* The sheets one call is tried on.  A sheet is Lead title rows, then up   *)
(* to MaxBody rows, each a header-shaped row (the keyword and period       *)
(* labels), a data row (a metric name and values) or a row with the        *)
(* keyword in another case.  Period labels are date cells, distinct in one *)
(* row as read_excel makes column labels unique, or the text "Trailing".   *)
(* Rows below the first keyword row hold no date cell.                     *)

NumPeriodCols == 2
MaxBody == 2
MaxLead == 20

Width == NumPeriodCols + 1
Leads == {0} \cup ((NROWS - 1)..MaxLead)

Labels == {Date(d) : d \in 1..NumPeriodCols} \cup {Trailing}
LabelSeqs ==
    {l \in [1..NumPeriodCols -> Labels] :
        \A i, j \in 1..NumPeriodCols :
            (i # j /\ l[i].t = "date") => l[i] # l[j]}

ValueCells ==
    <<Num(1200), Txt(<<"1",",","2","3","4">>), Txt(<<"N","A">>),
      Txt(<<"9","9","9">>), Blank>>
MetricNames == {Sales, Blank, Note}

TitleRow == [j \in 1..Width |-> IF j = 1 THEN Title ELSE Blank]
HeaderRows(K) ==
    {<<K>> \o l : l \in LabelSeqs}
    \cup {<<Title>> \o [l EXCEPT ![1] = K] : l \in LabelSeqs}
DataRows ==
    {<<m>> \o [j \in 1..NumPeriodCols |->
                  ValueCells[((k + j) % Len(ValueCells)) + 1]] :
        m \in MetricNames, k \in 1..Len(ValueCells)}
Rows(K) ==
    HeaderRows(K) \cup DataRows
    \cup {<<reportdate>> \o [j \in 1..NumPeriodCols |-> Trailing]}

HasDate(row) == \E j \in 1..Len(row) : row[j].t = "date"

Bodies(K) ==
    {b \in UNION {[1..n -> Rows(K)] : n \in 1..MaxBody} :
        \A i, k \in 1..Len(b) :
            (i < k /\ contains(b[i], K)) => ~HasDate(b[k])}

Sheets(K) ==
    {[readable |-> TRUE, rows |-> [i \in 1..lead |-> TitleRow] \o b] :
        lead \in Leads, b \in Bodies(K)}
    \cup {[readable |-> FALSE, rows |-> <<>>]}

----------------------------------------------------------------------------
(* SpecLoad: one call of load_and_clean_data on the "Data Sheet" *)

InitLoad ==
    /\ raw \in Sheets(ReportDate)
    /\ call = [done |-> FALSE]
    /\ file = <<>>
    /\ cache = <<>>
    /\ page = [ran |-> FALSE]

Call ==
    /\ ~call.done
    /\ call' = [done |-> TRUE,
                out |-> load_and_clean_data(raw, "Data Sheet", ReportDate)]
    /\ UNCHANGED <<raw, file, cache, page>>

NextLoad == Call

SpecLoad == InitLoad /\ [][NextLoad]_vars

----------------------------------------------------------------------------
(* The page script, lines 66-140.  One run of the script is one Render.    *)

SheetNames == {"Data Sheet", "Ratio Analysis", "Cash Flow"}

(* lines 70-72: the keyword each sheet is loaded with *)
Keyword(sheet_name) ==
    CASE sheet_name = "Data Sheet" -> ReportDate
      [] sheet_name = "Ratio Analysis" -> Years
      [] sheet_name = "Cash Flow" -> Narration

NoEntry == [present |-> FALSE]

(* lines 10-11: st.cache_data keys an entry by the function's arguments    *)
(* (file_path, sheet_name, header_keyword); file_path is the constant      *)
(* string of line 67, so the key is the sheet name and its keyword.  A hit *)
(* returns the stored value and replays the stored st.error messages.      *)
cached(entries, workbook, sheet_name) ==
    IF entries[sheet_name].present
    THEN entries[sheet_name].out
    ELSE load_and_clean_data(workbook[sheet_name], sheet_name, Keyword(sheet_name))

Position(seq, x) == CHOOSE i \in 1..Len(seq) : seq[i] = x
In(seq, x) == \E i \in 1..Len(seq) : seq[i] = x

(* line 90: float(val_now) - float(val_prev); NaN if either is NaN *)
minus(a, b) == IF a.num /\ b.num THEN Val(a.v - b.v) ELSE NaN

(* lines 83-96: one st.metric tile per KPI metric that is a column *)
RECURSIVE kpi_tiles(_, _)
kpi_tiles(df_main, metrics) ==
    IF metrics = <<>> THEN <<>>
    ELSE LET metric == Head(metrics)
             n == Len(df_main.index)
             col == Position(df_main.columns, metric)
             val_now == df_main.values[n][col]
             val_prev == df_main.values[n - 1][col]
         IN  (IF In(df_main.columns, metric)
              THEN <<[label |-> metric, period |-> df_main.index[n],
                      value |-> val_now, has_delta |-> TRUE,
                      delta |-> minus(val_now, val_prev)]>>
              ELSE <<>>)
             \o kpi_tiles(df_main, Tail(metrics))

Errors(outs) ==
    outs["Data Sheet"].errors \o outs["Ratio Analysis"].errors
    \o outs["Cash Flow"].errors

(* lines 74-140 *)
layout(df_main, df_ratios, df_cashflow) ==
    IF ~df_main.ok
    THEN [crashed |-> FALSE, sections |-> {"warning"}, tiles |-> <<>>]
    ELSE IF Len(df_main.index) < 2
    THEN \* line 80: df_main.index[-2] raises IndexError
         [crashed |-> TRUE, sections |-> {}, tiles |-> <<>>]
    ELSE
    LET tiles == kpi_tiles(df_main, <<Sales, NetProfit, OperatingProfit>>) IN
    IF ~(In(df_main.columns, Sales) /\ In(df_main.columns, NetProfit))
    THEN \* line 105: a multiselect default that is no option raises
         [crashed |-> TRUE, sections |-> {"highlights"}, tiles |-> tiles]
    ELSE IF df_ratios.ok
            /\ ~(In(df_ratios.columns, ROCE) /\ In(df_ratios.columns, ROE))
    THEN \* line 116
         [crashed |-> TRUE, sections |-> {"highlights", "trend"}, tiles |-> tiles]
    ELSE [crashed |-> FALSE,
          sections |-> {"highlights", "trend", "raw"}
                       \cup (IF df_ratios.ok THEN {"ratios"} ELSE {})
                       \cup (IF df_cashflow.ok THEN {"cashflow"} ELSE {}),
          tiles |-> tiles]

Render ==
    LET outs == [s \in SheetNames |-> cached(cache, file, s)]
        shown == layout(outs["Data Sheet"].ret, outs["Ratio Analysis"].ret,
                        outs["Cash Flow"].ret)
    IN  /\ cache' = [s \in SheetNames |-> [present |-> TRUE, out |-> outs[s]]]
        /\ page' = [ran |-> TRUE,
                    df |-> [s \in SheetNames |-> outs[s].ret],
                    parsed |-> {s \in SheetNames : ~cache[s].present},
                    errors |-> Errors(outs),
                    crashed |-> shown.crashed,
                    sections |-> shown.sections,
                    tiles |-> shown.tiles]
        /\ UNCHANGED <<raw, call, file>>

(* The workbook on disk: each sheet is missing, has no header row, or is a *)
(* header row over metric rows.                                            *)
Unreadable == [readable |-> FALSE, rows |-> <<>>]
Table(rows) == [readable |-> TRUE, rows |-> <<TitleRow>> \o rows]
Plain(name) == <<name>> \o [j \in 1..NumPeriodCols |-> Num(100 * j)]
Dated(K) == <<K>> \o [j \in 1..NumPeriodCols |-> Date(j)]

Workbooks(sheet_name) ==
    CASE sheet_name = "Data Sheet" ->
            {Unreadable, Table(<<>>), Table(<<Dated(ReportDate), Plain(NetProfit)>>)}
            \cup {Table(<<<<ReportDate>> \o l, Plain(Sales), Plain(NetProfit)>>) :
                    l \in LabelSeqs}
            \cup {Table(<<Dated(ReportDate), [Plain(Sales) EXCEPT ![j] = c],
                           Plain(NetProfit)>>) :
                    j \in 2..Width,
                    c \in {Blank, Txt(<<"N","A">>), Txt(<<"9","9","9">>)}}
      [] sheet_name = "Ratio Analysis" ->
            {Unreadable, Table(<<>>), Table(<<Dated(Years), Plain(ROCE)>>),
             Table(<<Dated(Years), Plain(ROCE), Plain(ROE)>>)}
      [] sheet_name = "Cash Flow" ->
            {Unreadable, Table(<<>>), Table(<<Dated(Narration), Plain(CashOp)>>)}

(* The file named by file_path is replaced or edited between two runs. *)
ChangeFile ==
    \E s \in SheetNames : \E w \in Workbooks(s) :
        /\ w # file[s]
        /\ file' = [file EXCEPT ![s] = w]
        /\ UNCHANGED <<raw, call, cache, page>>

Init ==
    /\ \E m \in Workbooks("Data Sheet") : \E r \in Workbooks("Ratio Analysis") :
       \E c \in Workbooks("Cash Flow") :
          file = [s \in SheetNames |->
                    CASE s = "Data Sheet" -> m
                      [] s = "Ratio Analysis" -> r
                      [] s = "Cash Flow" -> c]
    /\ cache = [s \in SheetNames |-> NoEntry]
    /\ page = [ran |-> FALSE, df |-> [s \in SheetNames |-> None], parsed |-> {},
               errors |-> <<>>, crashed |-> FALSE, sections |-> {}, tiles |-> <<>>]
    /\ raw = Unreadable
    /\ call = [done |-> FALSE]

Next == Render \/ ChangeFile

Spec == Init /\ [][Next]_vars

----------------------------------------------------------------------------
(* Properties of one call of load_and_clean_data (SpecLoad)                *)

K == ReportDate
out == call.out
HeaderIdx == out.header_row + 1

HoldsKeyword(i) == \E j \in 1..Len(raw.rows[i]) : raw.rows[i][j] = K
FirstKeywordRow(r) ==
    /\ r \in 0..(Len(raw.rows) - 1)
    /\ HoldsKeyword(r + 1)
    /\ \A i \in 1..r : ~HoldsKeyword(i)
NamesBelow(r) == [i \in 1..(Len(raw.rows) - r - 1) |-> raw.rows[r + 1 + i][1]]

Found == call.done /\ raw.readable /\ out.header_row >= 0
IsDateLabel(c) == c.t = "date"
DateCols == {j \in 2..Len(raw.rows[HeaderIdx]) : IsDateLabel(raw.rows[HeaderIdx][j])}
DataIdx == (HeaderIdx + 1)..Len(raw.rows)

(* the table holds x at the period of source column j and the metric of    *)
(* source row i                                                            *)
Holds(j, i, x) ==
    \E k \in 1..Len(out.ret.index) :
        /\ out.ret.index[k] = raw.rows[HeaderIdx][j].n
        /\ k \in DOMAIN out.ret.values
        /\ (i - HeaderIdx) \in DOMAIN out.ret.values[k]
        /\ out.ret.values[k][i - HeaderIdx] = x

RECURSIVE StripCommas(_)
StripCommas(s) ==
    IF s = <<>> THEN <<>>
    ELSE (IF Head(s) = "," THEN <<>> ELSE <<Head(s)>>) \o StripCommas(Tail(s))
HasComma(s) == \E i \in 1..Len(s) : s[i] = ","
HasMarker(s) == \E i \in 1..Len(s) : s[i] = "*"

(* C1 as stated: for every readable sheet and every r, if row r is the     *)
(* first row holding a cell equal to the keyword then the call selects r   *)
(* as the header row and the rows below r are all kept as data.            *)
C1_AnyRow ==
    (call.done /\ raw.readable) =>
        \A r \in 0..(Len(raw.rows) - 1) :
            FirstKeywordRow(r) =>
                /\ out.header_row = r
                /\ out.ret.ok
                /\ out.ret.columns = NamesBelow(r)

(* C1 amended: if the first row holding the keyword is row r < 20, the     *)
(* call selects r as the header row and every row below r, also one that   *)
(* holds the keyword again, is kept as data; if r >= 20 the scan of the    *)
(* first 20 rows does not see it, no header is found and None is returned. *)
C1_First20 ==
    (call.done /\ raw.readable) =>
        \A r \in 0..(Len(raw.rows) - 1) :
            FirstKeywordRow(r) =>
                IF r < NROWS
                THEN /\ out.header_row = r
                     /\ out.ret.ok
                     /\ out.ret.columns = NamesBelow(r)
                ELSE /\ out.header_row = -1
                     /\ out.ret = None
C1_Witness ==
    /\ call.done /\ raw.readable
    /\ out.header_row = NROWS - 1
    /\ \E i \in (NROWS + 1)..Len(raw.rows) : HoldsKeyword(i)
    /\ out.ret.columns = NamesBelow(NROWS - 1)

(* C2: for every readable sheet none of whose cells equals the keyword,    *)
(* the call returns None, reports exactly one error, naming the sheet and  *)
(* the keyword, and runs none of the re-read, date-coercion,               *)
(* numeric-coercion and transpose steps.                                   *)
C2_NotFound ==
    (call.done /\ raw.readable /\ \A i \in 1..Len(raw.rows) : ~HoldsKeyword(i)) =>
        /\ out.ret = None
        /\ out.errors = <<[kind |-> "Could not find header",
                           sheet |-> "Data Sheet", keyword |-> K]>>
        /\ out.steps \cap {"reread", "to_datetime", "to_numeric", "transpose"} = {}
C2_Witness ==
    /\ call.done /\ raw.readable
    /\ \A i \in 1..Len(raw.rows) : ~HoldsKeyword(i)
    /\ \E i \in 1..Len(raw.rows) : raw.rows[i][1] = reportdate
    /\ out.ret = None /\ Len(out.errors) = 1

(* C3 as stated: every data cell under a date column whose text is a       *)
(* number written with thousands separators ("1,234") is held by the table *)
(* as that number (1234) at its period and metric.                         *)
C3_Thousands ==
    Found =>
        \A j \in DateCols : \A i \in DataIdx :
            LET c == raw.rows[i][j] IN
            (c.t = "str" /\ HasComma(c.s) /\ IsNumeral(StripCommas(c.s))) =>
                Holds(j, i, Val(Decimal(StripCommas(c.s))))

(* C4: every data cell under a date column whose text is no number ("NA")  *)
(* is held by the table as the missing marker at its period and metric,    *)
(* never as zero, and the call still returns a table.                      *)
C4_Missing ==
    Found =>
        \A j \in DateCols : \A i \in DataIdx :
            LET c == raw.rows[i][j] IN
            (c.t = "str" /\ ~IsNumeral(StripCommas(c.s))) =>
                /\ out.ret.ok
                /\ out.errors = <<>>
                /\ Holds(j, i, NaN)
                /\ ~Holds(j, i, Val(0))
C4_Witness ==
    /\ Found /\ out.ret.ok
    /\ \E j \in DateCols : \E i \in DataIdx :
          /\ raw.rows[i][j] = Txt(<<"N","A">>)
          /\ Holds(j, i, NaN)

(* C5: the table has exactly one period row per header, other than the     *)
(* first, that is a date, and none for a header that is no date            *)
(* ("Trailing"); a header that is no date is no error.                     *)
C5_NonDateDropped ==
    Found =>
        /\ out.ret.ok
        /\ out.errors = <<>>
        /\ Len(out.ret.index) = Cardinality(DateCols)
        /\ Len(out.ret.values) = Cardinality(DateCols)
        /\ \A j \in DateCols :
              \E k \in 1..Len(out.ret.index) :
                  out.ret.index[k] = raw.rows[HeaderIdx][j].n
        /\ \A k \in 1..Len(out.ret.index) :
              \E j \in DateCols : out.ret.index[k] = raw.rows[HeaderIdx][j].n
C5_Witness ==
    /\ Found /\ out.ret.ok
    /\ DateCols # {}
    /\ \E j \in 2..Len(raw.rows[HeaderIdx]) : raw.rows[HeaderIdx][j] = Trailing
    /\ DataIdx # {}
    /\ Len(out.ret.index) = Cardinality(DateCols)

(* C6: whatever the order of the period columns in the sheet, the rows of  *)
(* the returned table are in non-decreasing order of period, and each row  *)
(* holds the values of its own source column.                              *)
C6_Sorted ==
    (Found /\ out.ret.ok) =>
        /\ \A k \in 1..(Len(out.ret.index) - 1) :
              out.ret.index[k] <= out.ret.index[k + 1]
        /\ \A j \in DateCols : \A i \in DataIdx :
              Holds(j, i, to_numeric(raw.rows[i][j]))
C6_Witness ==
    /\ Found /\ out.ret.ok
    /\ \E j1, j2 \in DateCols :
          j1 < j2 /\ raw.rows[HeaderIdx][j1].n > raw.rows[HeaderIdx][j2].n
    /\ \E j \in DateCols : \E i \in DataIdx :
          raw.rows[i][j].t = "num" /\ Holds(j, i, Val(raw.rows[i][j].n))

(* C7 as stated: no metric column of the returned table has an empty name  *)
(* or a name containing the exclusion marker: the source rows with such a  *)
(* name are absent from the table.                                         *)
C7_NoEmptyNames ==
    (Found /\ out.ret.ok) =>
        \A c \in 1..Len(out.ret.columns) :
            /\ out.ret.columns[c] # Blank
            /\ ~HasMarker(out.ret.columns[c].s)

----------------------------------------------------------------------------
(* Properties of the page script (Spec)                                    *)

Section(sheet_name) ==
    CASE sheet_name = "Data Sheet" -> "highlights"
      [] sheet_name = "Ratio Analysis" -> "ratios"
      [] sheet_name = "Cash Flow" -> "cashflow"

(* C8 as stated: the delta of each KPI tile is value(latest) -             *)
(* value(previous), from the last two rows of the main table, and when     *)
(* either value is missing the tile has no delta.                          *)
C8_Delta ==
    page.ran =>
        \A t \in 1..Len(page.tiles) :
            LET main == page.df["Data Sheet"]
                n == Len(main.index)
                col == CHOOSE c \in 1..Len(main.columns) :
                          main.columns[c] = page.tiles[t].label
                now == main.values[n][col]
                prev == main.values[n - 1][col]
            IN  IF now.num /\ prev.num
                THEN /\ page.tiles[t].has_delta
                     /\ page.tiles[t].delta = Val(now.v - prev.v)
                ELSE ~page.tiles[t].has_delta

(* C9 as stated: when the load of one sheet fails, the sections of the     *)
(* other two sheets are still rendered whenever their own load succeeded.  *)
C9_Isolated ==
    (page.ran /\ ~page.crashed) =>
        \A s, t \in SheetNames :
            (~page.df[s].ok /\ t # s /\ page.df[t].ok) =>
                Section(t) \in page.sections

(* C10 as stated: the table a run of the page obtains for a sheet always   *)
(* equals the normalization of the file's content at that run.             *)
C10_Fresh ==
    [][Render =>
         \A s \in SheetNames :
             page'.df[s] = load_and_clean_data(file[s], s, Keyword(s)).ret]_vars

====
